---------------------------- MODULE Spec2Model ----------------------------
(***************************************************************************)
(* agent-syscfg: the signal-driven lifecycle controller (cmd main,         *)
(* setupExitSignalHandling) and the interruptible healthcheck sleep        *)
(* (syscfg.HealthySleep).                                                  *)
(*                                                                         *)
(* Goroutines are interleaved one statement with a shared effect at a      *)
(* time.  Time is counted in seconds: Tick lets one second pass for every  *)
(* running timer; nothing bounds how long a runnable goroutine waits for   *)
(* the processor.                                                          *)
(***************************************************************************)
EXTENDS Integers, Sequences, FiniteSets, Bags

(* ------------------------------ bounds -------------------------------- *)
\* signals delivered to the process in one run
MaxSignals == 2
\* reporting goroutines alive at the same time
MaxReporters == 2
\* largest timeout (seconds) the HealthySleep harness passes, and the longest
\* time a timer is counted down exactly: a timer armed for longer holds
\* MaxTimeout + 1, "more than MaxTimeout seconds left"
MaxTimeout == 1
\* healthcheck requests stored by the harness
MaxRequests == 2
\* times the process is started on one host
MaxRuns == 2
\* signals in one burst, more than the channel holds
MaxBurst == 17

(* ------------------------- program constants -------------------------- *)
\* make(chan os.Signal, 16)
ChanCap == 16
\* time.Second, the reporting cadence
Second == 1
\* time.Minute, the idle loop's timeout
Minute == 60
\* time.Hour, doInstall's timeout
Hour == 3600

SIGINT  == "SIGINT"
SIGTERM == "SIGTERM"
SIGABRT == "SIGABRT"
SIGQUIT == "SIGQUIT"
SIGHUP  == "SIGHUP"
SIGURG  == "SIGURG"
SIGUSR1 == "SIGUSR1"
\* a signal the switch has no case for
SIGUSR2 == "SIGUSR2"

Signals == {SIGINT, SIGTERM, SIGABRT, SIGQUIT, SIGHUP, SIGURG, SIGUSR1, SIGUSR2}

\* the spec's signal classes
TerminateClass == {SIGINT, SIGQUIT, SIGABRT, SIGTERM}
QuietClass == {SIGURG, SIGUSR2}

\* signal.Notify(sigChan, os.Interrupt, syscall.SIGTERM, syscall.SIGABRT, syscall.SIGUSR1)
Notified == {SIGINT, SIGTERM, SIGABRT, SIGUSR1}

\* signal.Ignore(os.Interrupt, syscall.SIGTERM, syscall.SIGABRT)
IgnoredOnExit == {SIGINT, SIGTERM, SIGABRT}

\* what the Go runtime does with a signal that is neither notified nor
\* ignored (package os/signal, "Default behavior of signals in Go programs")
RuntimeDefault(sig) ==
  CASE sig \in {SIGHUP, SIGINT, SIGTERM} -> "exit"
    [] sig \in {SIGQUIT, SIGABRT}        -> "dump"
    [] OTHER                             -> "none"

\* the switch with SIGURG sharing the SIGUSR1 arm
Classify_urg(sig) ==
  CASE sig \in {SIGINT, SIGQUIT, SIGABRT, SIGTERM} -> "exit"
    [] sig = SIGHUP                                -> "reload"
    [] sig \in {SIGURG, SIGUSR1}                   -> "healthcheck"
    [] OTHER                                       -> "unknown"

\* the listener's switch: which arm a received signal takes
Classify(sig) ==
  CASE sig \in {SIGINT, SIGQUIT, SIGABRT, SIGTERM} -> "exit"
    [] sig = SIGHUP                                -> "reload"
    [] sig = SIGURG                                -> "ignore"
    [] sig = SIGUSR1                               -> "healthcheck"
    [] OTHER                                       -> "unknown"

(* ------------------- config and the journald fragment ------------------ *)
\* strings the code inspects are sequences of characters
Digits == {"0", "1", "2", "3", "4", "5", "6", "7", "8", "9"}
SizeSuffixes == {"K", "M", "G", "T", "P", "E"}

\* defaultLogLimit = "512M"
defaultLogLimit == <<"5", "1", "2", "M">>

\* regexp ^[0-9]+[KMGTPE]$
MatchSize(str) ==
  /\ Len(str) >= 2
  /\ str[Len(str)] \in SizeSuffixes
  /\ \A i \in 1..(Len(str) - 1) : str[i] \in Digits

\* the size strings a config file is given: unset, "1G", "12" (no suffix)
SizeStrings == {<<>>, <<"1", "G">>, <<"1", "2">>}

\* type LogConfig, type Config; &Config{} is EmptyConfig
LogConfigs ==
  [Disable : BOOLEAN, SystemMaxUse : SizeStrings, RuntimeMaxUse : SizeStrings]
Configs == [Logging : LogConfigs]
EmptyConfig ==
  [Logging |-> [Disable |-> FALSE, SystemMaxUse |-> <<>>, RuntimeMaxUse |-> <<>>]]

\* the config file: missing, present and not readable, present with JSON
\* that does not decode (content is what the decoder filled in before it
\* failed), or present and decoding to content
CfgFiles ==
  {[state |-> st, content |-> EmptyConfig] : st \in {"notexist", "unreadable"}}
    \cup [state : {"malformed"},
          content : {EmptyConfig, [EmptyConfig EXCEPT !.Logging.Disable = TRUE]}]
    \cup [state : {"valid"}, content : Configs]

\* LoadConfig: a pointer is a sequence of at most one element, <<>> is nil
LoadConfig_nil(f) ==
  IF f.state = "notexist" THEN [cfg |-> <<EmptyConfig>>, err |-> FALSE]
  ELSE IF f.state = "valid" THEN [cfg |-> <<f.content>>, err |-> FALSE]
  ELSE [cfg |-> <<>>, err |-> TRUE]

LoadConfig(f) ==
  IF f.state \in {"notexist", "unreadable"}
  THEN \* os.ReadFile failed
       IF f.state = "notexist"
       THEN [cfg |-> <<EmptyConfig>>, err |-> FALSE]
       ELSE [cfg |-> <<EmptyConfig>>, err |-> TRUE]
  ELSE \* json.Unmarshal(jsonBytes, newConfig)
       IF f.state = "malformed"
       THEN [cfg |-> <<EmptyConfig>>, err |-> TRUE]
       ELSE [cfg |-> <<f.content>>, err |-> FALSE]

\* sysd.Marshal(journalConf): the [Journal] section with its two settings
Marshal(persistSize, tempSize) ==
  << <<"[Journal]">>,
     <<"SystemMaxUse", persistSize>>,
     <<"RuntimeMaxUse", tempSize>> >>

\* a file on disk: absent, or present with its bytes
AbsentFile == [state |-> "absent", bytes |-> <<>>]
FileOf(data) == [state |-> "file", bytes |-> data]

\* what a failed os.WriteFile can leave behind: the file as it was, or a
\* truncated one
Truncated(data) == FileOf(SubSeq(data, 1, 1))

\* the journald fragments a host starts with: none, ones written by earlier
\* runs, a truncated one, one with other content
Fragments ==
  {AbsentFile, FileOf(<<>>), Truncated(Marshal(defaultLogLimit, defaultLogLimit)),
   FileOf(Marshal(defaultLogLimit, defaultLogLimit)),
   FileOf(Marshal(<<"1", "G">>, defaultLogLimit)),
   FileOf(Marshal(<<"1", "G">>, <<"1", "G">>))}

\* the outcomes of the file-system calls and external commands of one
\* EnforceLogging call
Envs ==
  [remove : BOOLEAN, enabled : BOOLEAN, restart : BOOLEAN, marshal : BOOLEAN,
   read : BOOLEAN, mkdir : BOOLEAN, write : {"ok", "fail", "partial"},
   removeAll : BOOLEAN]

\* writeFileIfNew without the bytes.Equal test
writeFileIfNew_noequal(cur, data, env) ==
  IF ~env.read
  THEN [isNew |-> FALSE, err |-> TRUE, wrote |-> FALSE, file |-> cur]
  ELSE IF ~env.mkdir
  THEN [isNew |-> TRUE, err |-> TRUE, wrote |-> FALSE, file |-> cur]
  ELSE IF env.write = "ok"
  THEN [isNew |-> TRUE, err |-> FALSE, wrote |-> TRUE, file |-> FileOf(data)]
  ELSE [isNew |-> TRUE, err |-> TRUE, wrote |-> TRUE,
        file |-> IF env.write = "partial" THEN Truncated(data) ELSE cur]

\* writeFileIfNew(outPath, data) on the file cur: whether it reports a new
\* file, whether it returns an error, whether os.WriteFile was called, and
\* the file it leaves
writeFileIfNew(cur, data, env) ==
  IF ~env.read
  THEN \* os.ReadFile failed with an error other than fs.ErrNotExist
       [isNew |-> FALSE, err |-> TRUE, wrote |-> FALSE, file |-> cur]
  ELSE IF cur.state = "file" /\ cur.bytes = data
  THEN [isNew |-> FALSE, err |-> FALSE, wrote |-> FALSE, file |-> cur]
  ELSE IF ~env.mkdir
  THEN [isNew |-> TRUE, err |-> TRUE, wrote |-> FALSE, file |-> cur]
  ELSE IF env.write = "ok"
  THEN [isNew |-> TRUE, err |-> FALSE, wrote |-> TRUE, file |-> FileOf(data)]
  ELSE [isNew |-> TRUE, err |-> TRUE, wrote |-> TRUE,
        file |-> IF env.write = "partial" THEN Truncated(data) ELSE cur]

\* what an EnforceLogging call that touches nothing reports
Untouched(cur) ==
  [file |-> cur, data |-> <<>>, wrote |-> FALSE, removed |-> FALSE,
   restart |-> FALSE]

\* the enforcement with the disable branch left out: limits are written
\* whatever cfg.Disable says
EnforceLogging_nodisable(c, cur, env) ==
  IF ~env.enabled
  THEN Untouched(cur)
  ELSE
    LET persistSize == IF c.SystemMaxUse = <<>> THEN defaultLogLimit ELSE c.SystemMaxUse
        tempSize == IF c.RuntimeMaxUse = <<>> THEN defaultLogLimit ELSE c.RuntimeMaxUse
        newFileBytes == Marshal(persistSize, tempSize)
        w == writeFileIfNew(cur, newFileBytes, env)
    IN IF ~(MatchSize(persistSize) /\ MatchSize(tempSize)) \/ ~env.marshal
       THEN Untouched(cur)
       ELSE IF w.err
       THEN [file |-> IF env.removeAll THEN AbsentFile ELSE w.file,
             data |-> newFileBytes, wrote |-> w.wrote,
             removed |-> env.removeAll /\ w.file.state = "file",
             restart |-> FALSE]
       ELSE [file |-> w.file, data |-> newFileBytes, wrote |-> w.wrote,
             removed |-> FALSE, restart |-> w.isNew]

\* EnforceLogging(cfg, log) on the fragment cur: the fragment it leaves, the
\* bytes it meant to write (<<>> when it got to none), whether os.WriteFile
\* was called, whether it removed the fragment, whether it ran
\* 'systemctl restart systemd-journald'
EnforceLogging(c, cur, env) ==
  IF c.Disable
  THEN \* os.Remove(journaldConfPath)
       IF cur.state = "absent" \/ ~env.remove
       THEN Untouched(cur)
       ELSE [file |-> AbsentFile, data |-> <<>>, wrote |-> FALSE,
             removed |-> TRUE, restart |-> env.enabled]
  ELSE IF ~env.enabled
  THEN \* checkJournaldEnabled
       Untouched(cur)
  ELSE
    LET persistSize == IF c.SystemMaxUse = <<>> THEN defaultLogLimit ELSE c.SystemMaxUse
        tempSize == IF c.RuntimeMaxUse = <<>> THEN defaultLogLimit ELSE c.RuntimeMaxUse
        newFileBytes == Marshal(persistSize, tempSize)
        w == writeFileIfNew(cur, newFileBytes, env)
    IN IF ~(MatchSize(persistSize) /\ MatchSize(tempSize)) \/ ~env.marshal
       THEN Untouched(cur)
       ELSE IF w.err
       THEN \* os.RemoveAll(journaldConfPath)
            [file |-> IF env.removeAll THEN AbsentFile ELSE w.file,
             data |-> newFileBytes, wrote |-> w.wrote,
             removed |-> env.removeAll /\ w.file.state = "file",
             restart |-> FALSE]
       ELSE [file |-> w.file, data |-> newFileBytes, wrote |-> w.wrote,
             removed |-> FALSE, restart |-> w.isNew]

\* lastEnforce before any EnforceLogging call
NoEnforce ==
  [ran |-> FALSE, cfg |-> EmptyConfig.Logging, before |-> AbsentFile,
   data |-> <<>>, wrote |-> FALSE, removed |-> FALSE, restart |-> FALSE]

(* ------------------------------- state -------------------------------- *)
VARIABLES
  proc,        \* "running", "killed" (runtime default action), "exited" (main
               \* returned), "fatal" (log.Fatal), "panicked"
  sigIgnored,  \* signals passed to signal.Ignore so far
  sigChan,     \* the buffered channel signal.Notify relays to
  lpc,         \* listener goroutine: "recv", "switch", "ignore", "cancel", "wgdone", "done"
  lsig,        \* the signal the listener holds ("none" when it holds none)
  cancelled,   \* ctx.Done() is closed
  hcReq,       \* the healthcheckRequest atomic.Bool
  wg,          \* activeBackgroundWorkers counter
  mpc,         \* main: "parse", "setup", "load", "enforce", "startup", "loop",
               \* "exiting", "wait", "end"; "harness" under SleepSpec
  cpc,         \* HealthySleep call: "idle", "poll", "parked", "ret", "returned"
  timeout,     \* the call's timeout argument
  ctimer,      \* seconds left on the call's time.After(timeout)
  cres,        \* the call's return value
  reps,        \* the live reporting goroutines, a bag of [pc, stop, timer, w] with
               \* pc one of "swap", "print", "stop", "parked"
  healthy,     \* number of HEALTHY lines printed
  \* history, read by the properties only
  last,        \* the last signal delivered, what became of it, was the context cancelled
  nDelivered,  \* signals delivered so far
  hcHandled,   \* healthcheck requests stored into the flag so far
  termSeen,    \* a terminate-class signal was delivered
  awaiting,    \* a healthcheck request was delivered in the idle loop, no HEALTHY since
  cancelFirst, \* in this call, cancellation fired while the timeout timer had not expired
  setInCall,   \* the flag was set during this call
  repBefore,   \* HEALTHY was printed after that set and before the call returned
  repAfter,    \* HEALTHY was printed after that set and after the call returned
  arrived,     \* the signals put on sigChan, in order (kept under BurstSpec)
  taken,       \* the signals the listener received, in order (kept under BurstSpec)
  \* the process from its start, and the host it runs on
  ctxHC,       \* the context carries the healthcheck flag under HCReqKey
  cfgFile,     \* the config file at opts.Config
  cfg,         \* the *Config main holds
  loadErr,     \* LoadConfig returned an error
  confFile,    \* the journald fragment at journaldConfPath
  runs,        \* how many times the process was started on this host
  lastEnforce  \* what the last EnforceLogging call did (read by the properties only)

progVars == <<proc, sigIgnored, sigChan, lpc, lsig, cancelled, hcReq, wg, mpc,
              cpc, timeout, ctimer, cres, reps, healthy>>
histVars == <<last, nDelivered, hcHandled, termSeen, awaiting, cancelFirst,
              setInCall, repBefore, repAfter>>
ordVars == <<arrived, taken>>
bootVars == <<ctxHC, cfgFile, cfg, loadErr, confFile, runs, lastEnforce>>
vars == <<proc, sigIgnored, sigChan, lpc, lsig, cancelled, hcReq, wg, mpc,
          cpc, timeout, ctimer, cres, reps, healthy,
          last, nDelivered, hcHandled, termSeen, awaiting, cancelFirst,
          setInCall, repBefore, repAfter, arrived, taken,
          ctxHC, cfgFile, cfg, loadErr, confFile, runs, lastEnforce>>

InCall == cpc \in {"poll", "parked", "ret"}
\* the call's time.After(timeout) is armed and not due
CallTimerRuns == cpc \in {"poll", "parked"} /\ ctimer > 0
\* the per-call history is kept for calls made by the HealthySleep harness
Tracked == mpc = "harness"

\* the states the live reporting goroutines are in, and the bag with one
\* goroutine moved from state r to state q
Reps == BagToSet(reps)
One(r) == SetToBag({r})
Moved(r, q) == (reps (-) One(r)) (+) One(q)

RECURSIVE CountIn(_)
CountIn(S) ==
  IF S = {} THEN 0
  ELSE LET x == CHOOSE x \in S : TRUE IN reps[x] + CountIn(S \ {x})

\* the bag of the goroutines in the states of DOMAIN f, each taken to state f[r]
MapReps(f) ==
  IF DOMAIN f = {} THEN EmptyBag
  ELSE [q \in {f[r] : r \in DOMAIN f} |-> CountIn({r \in DOMAIN f : f[r] = q})]
Listening == lpc \in {"recv", "switch"}

\* the process has come through startup on a host with no config file and
\* no journald: LoadConfig returned the empty Config, EnforceLogging touched
\* nothing
Booted ==
  /\ arrived = <<>>
  /\ taken = <<>>
  /\ cfgFile = [state |-> "notexist", content |-> EmptyConfig]
  /\ cfg = <<EmptyConfig>>
  /\ loadErr = FALSE
  /\ confFile = AbsentFile
  /\ runs = 1
  /\ lastEnforce = [NoEnforce EXCEPT !.ran = TRUE]

\* the state when setupExitSignalHandling has returned and LoadConfig and
\* EnforceLogging have run: the listener goroutine blocks on the channel, the
\* context is live, the flag is false
Listen ==
  /\ proc = "running"
  /\ sigIgnored = {}
  /\ sigChan = <<>>
  /\ lpc = "recv"
  /\ lsig = "none"
  /\ cancelled = FALSE
  /\ hcReq = FALSE
  /\ wg = 1
  /\ cpc = "idle"
  /\ timeout = 0
  /\ ctimer = 0
  /\ cres = FALSE
  /\ reps = EmptyBag
  /\ healthy = 0
  /\ last = [sig |-> "none", disp |-> "none", can |-> FALSE]
  /\ nDelivered = 0
  /\ hcHandled = 0
  /\ termSeen = FALSE
  /\ awaiting = FALSE
  /\ cancelFirst = FALSE
  /\ setInCall = FALSE
  /\ repBefore = FALSE
  /\ repAfter = FALSE
  /\ Booted
  /\ ctxHC = TRUE

Init ==
  /\ Listen
  /\ mpc = "startup"

(* ----------------------- signal delivery (OS, runtime) ----------------- *)
\* what becomes of a signal the OS delivers to the process
Disposition(sig) ==
  IF sig \in sigIgnored THEN "ignored"
  ELSE IF sig \in Notified
       THEN IF Len(sigChan) < ChanCap THEN "chan" ELSE "dropped"
       ELSE IF RuntimeDefault(sig) = "none" THEN "nothing" ELSE "kill"

\* the order of arrival is kept under BurstSpec
OrderTracked == mpc = "burst"

\* the runtime hands a signal to its disposition; signal.Notify's send does
\* not block: with the channel full the signal is dropped
Arrive(sig) ==
  /\ proc = "running"
  /\ LET d == Disposition(sig) IN
       /\ sigChan' = IF d = "chan" THEN Append(sigChan, sig) ELSE sigChan
       /\ proc' = IF d = "kill" THEN "killed" ELSE proc
       /\ last' = [sig |-> sig, disp |-> d, can |-> cancelled]
       /\ arrived' = IF OrderTracked /\ d = "chan"
                     THEN Append(arrived, sig) ELSE arrived
  /\ nDelivered' = nDelivered + 1
  /\ termSeen' = (termSeen \/ sig \in TerminateClass)
  /\ awaiting' = (awaiting \/ (sig = SIGUSR1 /\ mpc = "loop"))
  /\ UNCHANGED <<sigIgnored, lpc, lsig, cancelled, hcReq, wg, mpc, cpc, timeout,
                 ctimer, cres, reps, healthy, hcHandled, cancelFirst,
                 setInCall, repBefore, repAfter>>
  /\ UNCHANGED bootVars
  /\ taken' = taken

Deliver(sig) ==
  /\ nDelivered < MaxSignals
  /\ Arrive(sig)

(* ------------------------- the flag and the context -------------------- *)
\* healthcheckRequest.Store(true)
StoreFlag ==
  /\ hcReq' = TRUE
  /\ hcHandled' = hcHandled + 1
  /\ setInCall' = (setInCall \/ (Tracked /\ InCall))

\* cancel(): closes ctx.Done(); every goroutine parked in a select on it is
\* woken with that case
DoCancel ==
  /\ cancelled' = TRUE
  /\ cpc' = IF cpc = "parked" THEN "ret" ELSE cpc
  /\ cres' = IF cpc = "parked" THEN FALSE ELSE cres
  /\ reps' = MapReps([r \in {x \in Reps : x.pc # "parked"} |-> r])
  /\ cancelFirst' = (cancelFirst \/ (Tracked /\ ~cancelled /\ CallTimerRuns))

(* --------------------------- the listener ------------------------------ *)
\* a receive that takes the newest signal in the channel
ListenerRecv_newest ==
  /\ proc = "running"
  /\ lpc = "recv"
  /\ sigChan # <<>>
  /\ lsig' = sigChan[Len(sigChan)]
  /\ sigChan' = SubSeq(sigChan, 1, Len(sigChan) - 1)
  /\ lpc' = "switch"
  /\ UNCHANGED <<proc, sigIgnored, cancelled, hcReq, wg, mpc, cpc, timeout,
                 ctimer, cres, reps, healthy>>
  /\ UNCHANGED histVars
  /\ UNCHANGED bootVars
  /\ arrived' = arrived
  /\ taken' = IF OrderTracked THEN Append(taken, lsig') ELSE taken

\* sig := <-sigChan
ListenerRecv ==
  /\ proc = "running"
  /\ lpc = "recv"
  /\ sigChan # <<>>
  /\ lsig' = Head(sigChan)
  /\ sigChan' = Tail(sigChan)
  /\ lpc' = "switch"
  /\ UNCHANGED <<proc, sigIgnored, cancelled, hcReq, wg, mpc, cpc, timeout,
                 ctimer, cres, reps, healthy>>
  /\ UNCHANGED histVars
  /\ UNCHANGED bootVars
  /\ arrived' = arrived
  /\ taken' = IF OrderTracked THEN Append(taken, lsig') ELSE taken

\* the switch: exit signals log and go on to signal.Ignore, SIGUSR1 stores the
\* flag, every other arm goes back to the receive
ListenerSwitch ==
  /\ proc = "running"
  /\ lpc = "switch"
  /\ LET c == Classify(lsig) IN
       /\ lpc' = IF c = "exit" THEN "ignore" ELSE "recv"
       /\ lsig' = IF c = "exit" THEN lsig ELSE "none"
       /\ IF c = "healthcheck"
          THEN StoreFlag
          ELSE UNCHANGED <<hcReq, hcHandled, setInCall>>
  /\ UNCHANGED <<proc, sigIgnored, sigChan, cancelled, wg, mpc, cpc, timeout,
                 ctimer, cres, reps, healthy>>
  /\ UNCHANGED <<last, nDelivered, termSeen, awaiting, cancelFirst, repBefore,
                 repAfter>>
  /\ UNCHANGED bootVars
  /\ UNCHANGED ordVars

\* the exit arm ignoring os.Interrupt only
ListenerIgnore_intonly ==
  /\ proc = "running"
  /\ lpc = "ignore"
  /\ sigIgnored' = sigIgnored \cup {SIGINT}
  /\ lpc' = "cancel"
  /\ UNCHANGED <<proc, sigChan, lsig, cancelled, hcReq, wg, mpc, cpc, timeout,
                 ctimer, cres, reps, healthy>>
  /\ UNCHANGED histVars
  /\ UNCHANGED bootVars
  /\ UNCHANGED ordVars

\* signal.Ignore(os.Interrupt, syscall.SIGTERM, syscall.SIGABRT); return
ListenerIgnore ==
  /\ proc = "running"
  /\ lpc = "ignore"
  /\ sigIgnored' = sigIgnored \cup IgnoredOnExit
  /\ lpc' = "cancel"
  /\ UNCHANGED <<proc, sigChan, lsig, cancelled, hcReq, wg, mpc, cpc, timeout,
                 ctimer, cres, reps, healthy>>
  /\ UNCHANGED histVars
  /\ UNCHANGED bootVars
  /\ UNCHANGED ordVars

\* defer cancel()
ListenerCancel ==
  /\ proc = "running"
  /\ lpc = "cancel"
  /\ DoCancel
  /\ lpc' = "wgdone"
  /\ UNCHANGED <<proc, sigIgnored, sigChan, lsig, hcReq, wg, mpc, timeout,
                 ctimer, healthy>>
  /\ UNCHANGED <<last, nDelivered, hcHandled, termSeen, awaiting, setInCall,
                 repBefore, repAfter>>
  /\ UNCHANGED bootVars
  /\ UNCHANGED ordVars

\* defer activeBackgroundWorkers.Done()
ListenerDone ==
  /\ proc = "running"
  /\ lpc = "wgdone"
  /\ wg' = wg - 1
  /\ lpc' = "done"
  /\ lsig' = "none"
  /\ UNCHANGED <<proc, sigIgnored, sigChan, cancelled, hcReq, mpc, cpc, timeout,
                 ctimer, cres, reps, healthy>>
  /\ UNCHANGED histVars
  /\ UNCHANGED bootVars
  /\ UNCHANGED ordVars

(* ---------------------------- HealthySleep ----------------------------- *)
\* the timer time.After(d) arms: due at once when d <= 0
ArmTimer(d) == IF d > MaxTimeout THEN MaxTimeout + 1 ELSE IF d > 0 THEN d ELSE 0

\* one live reporting goroutine at a time may be marked (w) to be followed to
\* its end; the mark is kept for goroutines of the HealthySleep harness
Watchable == IF Tracked /\ ~\E r \in Reps : r.w THEN BOOLEAN ELSE {FALSE}

\* the call with a reporting goroutine whose loop waits for a tick before its
\* first hc.Swap(false)
HSCall_tickfirst(d) ==
  /\ proc = "running"
  /\ cpc = "idle"
  /\ BagCardinality(reps) < MaxReporters
  /\ \E w \in Watchable :
       reps' = reps (+) One([pc |-> "parked", stop |-> FALSE,
                           timer |-> ArmTimer(Second), w |-> w])
  /\ timeout' = d
  /\ ctimer' = ArmTimer(d)
  /\ cpc' = "poll"
  /\ cancelFirst' = (Tracked /\ cancelled)
  /\ setInCall' = FALSE
  /\ repBefore' = FALSE
  /\ repAfter' = FALSE

\* the call up to the select: look up the flag, stop := &atomic.Bool{}, start
\* the reporting goroutine, enter the select, which evaluates time.After(timeout)
HSCall(d) ==
  /\ proc = "running"
  /\ cpc = "idle"
  /\ BagCardinality(reps) < MaxReporters
  /\ \E w \in Watchable :
       reps' = reps (+) One([pc |-> "swap", stop |-> FALSE, timer |-> 0, w |-> w])
  /\ timeout' = d
  /\ ctimer' = ArmTimer(d)
  /\ cpc' = "poll"
  /\ cancelFirst' = (Tracked /\ cancelled)
  /\ setInCall' = FALSE
  /\ repBefore' = FALSE
  /\ repAfter' = FALSE

\* the select looks at both channels: it takes a ready one (either, when both
\* are ready) and parks when neither is
HSPoll ==
  /\ proc = "running"
  /\ cpc = "poll"
  /\ \/ /\ cancelled
        /\ cpc' = "ret"
        /\ cres' = FALSE
     \/ /\ ctimer = 0
        /\ cpc' = "ret"
        /\ cres' = TRUE
     \/ /\ ~cancelled
        /\ ctimer > 0
        /\ cpc' = "parked"
        /\ cres' = cres
  /\ UNCHANGED <<proc, sigIgnored, sigChan, lpc, lsig, cancelled, hcReq, wg, mpc,
                 timeout, ctimer, reps, healthy>>
  /\ UNCHANGED histVars
  /\ UNCHANGED bootVars
  /\ UNCHANGED ordVars

\* the timer case returning false
HSWakeTimer_retfalse ==
  /\ proc = "running"
  /\ cpc = "parked"
  /\ ctimer = 0
  /\ cpc' = "ret"
  /\ cres' = FALSE
  /\ UNCHANGED <<proc, sigIgnored, sigChan, lpc, lsig, cancelled, hcReq, wg, mpc,
                 timeout, ctimer, reps, healthy>>
  /\ UNCHANGED histVars
  /\ UNCHANGED bootVars
  /\ UNCHANGED ordVars

\* case <-time.After(timeout): return true
HSWakeTimer ==
  /\ proc = "running"
  /\ cpc = "parked"
  /\ ctimer = 0
  /\ cpc' = "ret"
  /\ cres' = TRUE
  /\ UNCHANGED <<proc, sigIgnored, sigChan, lpc, lsig, cancelled, hcReq, wg, mpc,
                 timeout, ctimer, reps, healthy>>
  /\ UNCHANGED histVars
  /\ UNCHANGED bootVars
  /\ UNCHANGED ordVars

\* a return that also clears the flag: defer hc.Store(false) next to
\* defer stop.Store(true)
HSReturn_clear ==
  /\ proc = "running"
  /\ cpc = "ret"
  /\ reps' = MapReps([r \in Reps |-> [r EXCEPT !.stop = TRUE]])
  /\ cpc' = "returned"
  /\ ctimer' = 0
  /\ hcReq' = FALSE
  /\ UNCHANGED <<proc, sigIgnored, sigChan, lpc, lsig, cancelled, wg, mpc,
                 timeout, cres, healthy>>
  /\ UNCHANGED histVars
  /\ UNCHANGED bootVars
  /\ UNCHANGED ordVars

\* defer stop.Store(true), then control is back at the caller; the only
\* goroutine whose stop is still false is the one this call started
HSReturn ==
  /\ proc = "running"
  /\ cpc = "ret"
  /\ reps' = MapReps([r \in Reps |-> [r EXCEPT !.stop = TRUE]])
  /\ cpc' = "returned"
  /\ ctimer' = 0
  /\ UNCHANGED <<proc, sigIgnored, sigChan, lpc, lsig, cancelled, hcReq, wg, mpc,
                 timeout, cres, healthy>>
  /\ UNCHANGED histVars
  /\ UNCHANGED bootVars
  /\ UNCHANGED ordVars

(* ---------------------- the reporting goroutine ------------------------ *)
\* hc.Load() in place of hc.Swap(false): the flag is read and not cleared
RepSwap_load(r) ==
  /\ proc = "running"
  /\ r.pc = "swap"
  /\ hcReq' = hcReq
  /\ reps' = Moved(r, [r EXCEPT !.pc = IF hcReq THEN "print" ELSE "stop"])
  /\ UNCHANGED <<proc, sigIgnored, sigChan, lpc, lsig, cancelled, wg, mpc, cpc,
                 timeout, ctimer, cres, healthy>>
  /\ UNCHANGED histVars
  /\ UNCHANGED bootVars
  /\ UNCHANGED ordVars

\* hc.Swap(false) with its result thrown away: the flag is cleared, nothing is printed
RepSwap_drop(r) ==
  /\ proc = "running"
  /\ r.pc = "swap"
  /\ hcReq' = FALSE
  /\ reps' = Moved(r, [r EXCEPT !.pc = "stop"])
  /\ UNCHANGED <<proc, sigIgnored, sigChan, lpc, lsig, cancelled, wg, mpc, cpc,
                 timeout, ctimer, cres, healthy>>
  /\ UNCHANGED histVars
  /\ UNCHANGED bootVars
  /\ UNCHANGED ordVars

\* hc.Swap(false); hc is the nil *atomic.Bool when the context carried no
\* flag (the type assertion failed), and the call through it panics
RepSwap(r) ==
  /\ proc = "running"
  /\ r.pc = "swap"
  /\ IF ctxHC
     THEN /\ hcReq' = FALSE
          /\ reps' = Moved(r, [r EXCEPT !.pc = IF hcReq THEN "print" ELSE "stop"])
          /\ proc' = proc
     ELSE /\ proc' = "panicked"
          /\ UNCHANGED <<hcReq, reps>>
  /\ UNCHANGED <<sigIgnored, sigChan, lpc, lsig, cancelled, wg, mpc, cpc,
                 timeout, ctimer, cres, healthy>>
  /\ UNCHANGED histVars
  /\ UNCHANGED bootVars
  /\ UNCHANGED ordVars

\* fmt.Println("HEALTHY")
RepPrint(r) ==
  /\ proc = "running"
  /\ r.pc = "print"
  /\ healthy' = healthy + 1
  /\ reps' = Moved(r, [r EXCEPT !.pc = "stop"])
  /\ awaiting' = FALSE
  /\ repBefore' = (repBefore \/ (setInCall /\ InCall))
  /\ repAfter' = (repAfter \/ (setInCall /\ ~InCall))
  /\ UNCHANGED <<proc, sigIgnored, sigChan, lpc, lsig, cancelled, hcReq, wg, mpc,
                 cpc, timeout, ctimer, cres>>
  /\ UNCHANGED <<last, nDelivered, hcHandled, termSeen, cancelFirst, setInCall>>
  /\ UNCHANGED bootVars
  /\ UNCHANGED ordVars

\* the loop without the stop.Load() test
RepStop_nostop(r) ==
  /\ proc = "running"
  /\ r.pc = "stop"
  /\ reps' = IF cancelled THEN reps (-) One(r)
             ELSE Moved(r, [r EXCEPT !.pc = "parked", !.timer = ArmTimer(Second)])
  /\ UNCHANGED <<proc, sigIgnored, sigChan, lpc, lsig, cancelled, hcReq, wg, mpc,
                 cpc, timeout, ctimer, cres, healthy>>
  /\ UNCHANGED histVars
  /\ UNCHANGED bootVars
  /\ UNCHANGED ordVars

\* if stop.Load() { return }; otherwise the select: it evaluates
\* time.After(time.Second), ends the goroutine when ctx.Done() is closed and
\* parks it when not (the fresh timer is not due)
RepStop(r) ==
  /\ proc = "running"
  /\ r.pc = "stop"
  /\ reps' = IF r.stop \/ cancelled THEN reps (-) One(r)
             ELSE Moved(r, [r EXCEPT !.pc = "parked", !.timer = ArmTimer(Second)])
  /\ UNCHANGED <<proc, sigIgnored, sigChan, lpc, lsig, cancelled, hcReq, wg, mpc,
                 cpc, timeout, ctimer, cres, healthy>>
  /\ UNCHANGED histVars
  /\ UNCHANGED bootVars
  /\ UNCHANGED ordVars

\* case <-time.After(time.Second):
RepWakeTimer(r) ==
  /\ proc = "running"
  /\ r.pc = "parked"
  /\ r.timer = 0
  /\ reps' = Moved(r, [r EXCEPT !.pc = "swap"])
  /\ UNCHANGED <<proc, sigIgnored, sigChan, lpc, lsig, cancelled, hcReq, wg, mpc,
                 cpc, timeout, ctimer, cres, healthy>>
  /\ UNCHANGED histVars
  /\ UNCHANGED bootVars
  /\ UNCHANGED ordVars

(* -------------------------------- time --------------------------------- *)
RepTimerRuns(r) == r.pc = "parked" /\ r.timer > 0

\* one second passes for every running timer; a timer with more than
\* MaxTimeout seconds left may still have more than MaxTimeout left afterwards
Tick ==
  /\ proc = "running"
  /\ CallTimerRuns \/ \E r \in Reps : RepTimerRuns(r)
  /\ \/ ctimer' = IF CallTimerRuns THEN ctimer - 1 ELSE ctimer
     \/ /\ ctimer = MaxTimeout + 1
        /\ ctimer' = ctimer
  /\ reps' = MapReps([r \in Reps |-> IF RepTimerRuns(r)
                                      THEN [r EXCEPT !.timer = @ - 1] ELSE r])
  /\ UNCHANGED <<proc, sigIgnored, sigChan, lpc, lsig, cancelled, hcReq, wg, mpc,
                 cpc, timeout, cres, healthy>>
  /\ UNCHANGED histVars
  /\ UNCHANGED bootVars
  /\ UNCHANGED ordVars

(* -------------------------------- main --------------------------------- *)
\* log.Info("agent-syscfg startup complete")
MainStartup ==
  /\ proc = "running"
  /\ mpc = "startup"
  /\ mpc' = "loop"
  /\ UNCHANGED <<proc, sigIgnored, sigChan, lpc, lsig, cancelled, hcReq, wg,
                 cpc, timeout, ctimer, cres, reps, healthy>>
  /\ UNCHANGED histVars
  /\ UNCHANGED bootVars
  /\ UNCHANGED ordVars

\* syscfg.HealthySleep(ctx, time.Minute)
MainSleep ==
  /\ mpc = "loop"
  /\ HSCall(Minute)
  /\ UNCHANGED <<proc, sigIgnored, sigChan, lpc, lsig, cancelled, hcReq, wg, mpc,
                 cres, healthy>>
  /\ UNCHANGED <<last, nDelivered, hcHandled, termSeen, awaiting>>
  /\ UNCHANGED bootVars
  /\ UNCHANGED ordVars

\* if !HealthySleep(...) { break }
MainCheck ==
  /\ proc = "running"
  /\ mpc = "loop"
  /\ cpc = "returned"
  /\ cpc' = "idle"
  /\ mpc' = IF cres THEN "loop" ELSE "exiting"
  /\ timeout' = 0
  /\ cres' = FALSE
  /\ UNCHANGED <<proc, sigIgnored, sigChan, lpc, lsig, cancelled, hcReq, wg,
                 ctimer, reps, healthy>>
  /\ UNCHANGED histVars
  /\ UNCHANGED bootVars
  /\ UNCHANGED ordVars

\* log.Info("agent-syscfg subsystem exiting")
MainExitLog ==
  /\ proc = "running"
  /\ mpc = "exiting"
  /\ mpc' = "wait"
  /\ UNCHANGED <<proc, sigIgnored, sigChan, lpc, lsig, cancelled, hcReq, wg,
                 cpc, timeout, ctimer, cres, reps, healthy>>
  /\ UNCHANGED histVars
  /\ UNCHANGED bootVars
  /\ UNCHANGED ordVars

\* defer activeBackgroundWorkers.Wait(); main returns and the process ends
MainWait ==
  /\ proc = "running"
  /\ mpc = "wait"
  /\ wg = 0
  /\ mpc' = "end"
  /\ proc' = "exited"
  /\ UNCHANGED <<sigIgnored, sigChan, lpc, lsig, cancelled, hcReq, wg,
                 cpc, timeout, ctimer, cres, reps, healthy>>
  /\ UNCHANGED histVars
  /\ UNCHANGED bootVars
  /\ UNCHANGED ordVars

DeliverAny == \E sig \in Signals : Deliver(sig)
RepSwapAny == \E r \in Reps : RepSwap(r)
RepPrintAny == \E r \in Reps : RepPrint(r)
RepStopAny == \E r \in Reps : RepStop(r)
RepWakeTimerAny == \E r \in Reps : RepWakeTimer(r)

Next ==
  \/ DeliverAny
  \/ ListenerRecv
  \/ ListenerSwitch
  \/ ListenerIgnore
  \/ ListenerCancel
  \/ ListenerDone
  \/ MainStartup
  \/ MainSleep
  \/ MainCheck
  \/ MainExitLog
  \/ MainWait
  \/ HSPoll
  \/ HSWakeTimer
  \/ HSReturn
  \/ RepSwapAny
  \/ RepPrintAny
  \/ RepStopAny
  \/ RepWakeTimerAny
  \/ Tick

Spec == Init /\ [][Next]_vars

(* ------------------- HealthySleep under any caller --------------------- *)
\* HealthySleep is exported: a caller owns the context and the flag, passes any
\* timeout, cancels when it likes (doInstall: defer cancel()) and may call
\* again after a return
Timeouts == (0 - 1)..MaxTimeout

\* no listener, no call of HealthySleep yet
Quiet ==
  /\ proc = "running"
  /\ sigIgnored = {}
  /\ sigChan = <<>>
  /\ lpc = "none"
  /\ lsig = "none"
  /\ cancelled = FALSE
  /\ hcReq = FALSE
  /\ wg = 0
  /\ cpc = "idle"
  /\ timeout = 0
  /\ ctimer = 0
  /\ cres = FALSE
  /\ reps = EmptyBag
  /\ healthy = 0
  /\ last = [sig |-> "none", disp |-> "none", can |-> FALSE]
  /\ nDelivered = 0
  /\ hcHandled = 0
  /\ termSeen = FALSE
  /\ awaiting = FALSE
  /\ cancelFirst = FALSE
  /\ setInCall = FALSE
  /\ repBefore = FALSE
  /\ repAfter = FALSE
  /\ Booted

\* a caller about to call HealthySleep
SleepStart ==
  /\ Quiet
  /\ mpc = "harness"

\* the caller's context carries the flag
InitSleep ==
  /\ SleepStart
  /\ ctxHC = TRUE

\* HealthySleep(ctx, d)
CallerSleep ==
  /\ mpc = "harness"
  /\ \E d \in Timeouts : HSCall(d)
  /\ UNCHANGED <<proc, sigIgnored, sigChan, lpc, lsig, cancelled, hcReq, wg, mpc,
                 cres, healthy>>
  /\ UNCHANGED <<last, nDelivered, hcHandled, termSeen, awaiting>>
  /\ UNCHANGED bootVars
  /\ UNCHANGED ordVars

\* the caller has the return value and may call again
CallerResume ==
  /\ proc = "running"
  /\ mpc = "harness"
  /\ cpc = "returned"
  /\ cpc' = "idle"
  /\ timeout' = 0
  /\ cres' = FALSE
  /\ UNCHANGED <<proc, sigIgnored, sigChan, lpc, lsig, cancelled, hcReq, wg, mpc,
                 ctimer, reps, healthy>>
  /\ UNCHANGED histVars
  /\ UNCHANGED bootVars
  /\ UNCHANGED ordVars

\* the context's owner calls cancel()
CallerCancel ==
  /\ proc = "running"
  /\ mpc = "harness"
  /\ ~cancelled
  /\ DoCancel
  /\ UNCHANGED <<proc, sigIgnored, sigChan, lpc, lsig, hcReq, wg, mpc, timeout,
                 ctimer, healthy>>
  /\ UNCHANGED <<last, nDelivered, hcHandled, termSeen, awaiting, setInCall,
                 repBefore, repAfter>>
  /\ UNCHANGED bootVars
  /\ UNCHANGED ordVars

\* the flag's owner stores a healthcheck request
CallerStore ==
  /\ proc = "running"
  /\ mpc = "harness"
  /\ hcHandled < MaxRequests
  /\ StoreFlag
  /\ UNCHANGED <<proc, sigIgnored, sigChan, lpc, lsig, cancelled, wg, mpc, cpc,
                 timeout, ctimer, cres, reps, healthy>>
  /\ UNCHANGED <<last, nDelivered, termSeen, awaiting, cancelFirst, repBefore,
                 repAfter>>
  /\ UNCHANGED bootVars
  /\ UNCHANGED ordVars

NextSleep ==
  \/ CallerSleep
  \/ CallerResume
  \/ CallerCancel
  \/ CallerStore
  \/ HSPoll
  \/ HSWakeTimer
  \/ HSReturn
  \/ RepSwapAny
  \/ RepPrintAny
  \/ RepStopAny
  \/ RepWakeTimerAny
  \/ Tick

SleepSpec == InitSleep /\ [][NextSleep]_vars

\* the Go scheduler runs every runnable goroutine, the runtime fires every due
\* timer, and time passes; the caller's own moves are under no obligation
FairSleepSpec ==
  /\ SleepSpec
  /\ WF_vars(HSPoll)
  /\ WF_vars(HSWakeTimer)
  /\ WF_vars(HSReturn)
  /\ WF_vars(RepSwapAny)
  /\ WF_vars(RepPrintAny)
  /\ WF_vars(RepStopAny)
  /\ WF_vars(RepWakeTimerAny)
  /\ WF_vars(Tick)

\* a step of the marked reporting goroutine
WatchedStep ==
  \E r \in Reps :
    /\ r.w
    /\ RepSwap(r) \/ RepPrint(r) \/ RepStop(r) \/ RepWakeTimer(r)

\* the scheduler runs every runnable goroutine, the marked one too however
\* many others are runnable
FairReporterSpec ==
  /\ FairSleepSpec
  /\ WF_vars(WatchedStep)

(* ------------ HealthySleep under any context, with or without flag ----- *)
InitCtx ==
  /\ SleepStart
  /\ ctxHC \in BOOLEAN

CtxSpec == InitCtx /\ [][NextSleep]_vars

(* ------------------------ main from its first line --------------------- *)
\* the process is started: nothing is set up, the host has any config file
\* and any journald fragment
InitBoot ==
  /\ proc = "running"
  /\ sigIgnored = {}
  /\ sigChan = <<>>
  /\ lpc = "none"
  /\ lsig = "none"
  /\ cancelled = FALSE
  /\ hcReq = FALSE
  /\ wg = 0
  /\ mpc = "parse"
  /\ cpc = "idle"
  /\ timeout = 0
  /\ ctimer = 0
  /\ cres = FALSE
  /\ reps = EmptyBag
  /\ healthy = 0
  /\ last = [sig |-> "none", disp |-> "none", can |-> FALSE]
  /\ nDelivered = 0
  /\ hcHandled = 0
  /\ termSeen = FALSE
  /\ awaiting = FALSE
  /\ cancelFirst = FALSE
  /\ setInCall = FALSE
  /\ repBefore = FALSE
  /\ repAfter = FALSE
  /\ arrived = <<>>
  /\ taken = <<>>
  /\ ctxHC = FALSE
  /\ cfgFile \in CfgFiles
  /\ cfg = <<>>
  /\ loadErr = FALSE
  /\ confFile \in Fragments
  /\ runs = 1
  /\ lastEnforce = NoEnforce

\* parser.Parse(): an error is fatal, help and version print and return
MainParse ==
  /\ proc = "running"
  /\ mpc = "parse"
  /\ \E outcome \in {"ok", "error", "help", "version"} :
       /\ proc' = CASE outcome = "ok" -> proc
                    [] outcome = "error" -> "fatal"
                    [] OTHER -> "exited"
       /\ mpc' = CASE outcome = "ok" -> "setup"
                   [] outcome = "error" -> mpc
                   [] OTHER -> "end"
  /\ UNCHANGED <<sigIgnored, sigChan, lpc, lsig, cancelled, hcReq, wg, cpc,
                 timeout, ctimer, cres, reps, healthy>>
  /\ UNCHANGED histVars
  /\ UNCHANGED ordVars
  /\ UNCHANGED bootVars

\* ctx := setupExitSignalHandling(); defer activeBackgroundWorkers.Wait()
MainSetup ==
  /\ proc = "running"
  /\ mpc = "setup"
  /\ ctxHC' = TRUE
  /\ wg' = wg + 1
  /\ lpc' = "recv"
  /\ mpc' = "load"
  /\ UNCHANGED <<proc, sigIgnored, sigChan, lsig, cancelled, hcReq, cpc,
                 timeout, ctimer, cres, reps, healthy>>
  /\ UNCHANGED histVars
  /\ UNCHANGED ordVars
  /\ UNCHANGED <<cfgFile, cfg, loadErr, confFile, runs, lastEnforce>>

\* log.Fatal(err) in place of log.Warn(err)
MainLoadConfig_fatal ==
  /\ proc = "running"
  /\ mpc = "load"
  /\ LET res == LoadConfig(cfgFile) IN
       /\ cfg' = res.cfg
       /\ loadErr' = res.err
       /\ proc' = IF res.err THEN "fatal" ELSE proc
  /\ mpc' = "enforce"
  /\ UNCHANGED <<sigIgnored, sigChan, lpc, lsig, cancelled, hcReq, wg, cpc,
                 timeout, ctimer, cres, reps, healthy>>
  /\ UNCHANGED histVars
  /\ UNCHANGED ordVars
  /\ UNCHANGED <<ctxHC, cfgFile, confFile, runs, lastEnforce>>

\* cfg, err := syscfg.LoadConfig(opts.Config); if err != nil { log.Warn(err) }
MainLoadConfig ==
  /\ proc = "running"
  /\ mpc = "load"
  /\ LET res == LoadConfig(cfgFile) IN
       /\ cfg' = res.cfg
       /\ loadErr' = res.err
  /\ mpc' = "enforce"
  /\ UNCHANGED <<proc, sigIgnored, sigChan, lpc, lsig, cancelled, hcReq, wg, cpc,
                 timeout, ctimer, cres, reps, healthy>>
  /\ UNCHANGED histVars
  /\ UNCHANGED ordVars
  /\ UNCHANGED <<ctxHC, cfgFile, confFile, runs, lastEnforce>>

\* syscfg.EnforceLogging(cfg.Logging, log): cfg.Logging panics on a nil cfg
MainEnforceLogging ==
  /\ proc = "running"
  /\ mpc = "enforce"
  /\ IF cfg = <<>>
     THEN /\ proc' = "panicked"
          /\ UNCHANGED <<mpc, confFile, lastEnforce>>
     ELSE /\ proc' = proc
          /\ mpc' = "startup"
          /\ \E env \in Envs :
               LET res == EnforceLogging(cfg[1].Logging, confFile, env) IN
                 /\ confFile' = res.file
                 /\ lastEnforce' =
                      [ran |-> TRUE, cfg |-> cfg[1].Logging, before |-> confFile,
                       data |-> res.data, wrote |-> res.wrote,
                       removed |-> res.removed, restart |-> res.restart]
  /\ UNCHANGED <<sigIgnored, sigChan, lpc, lsig, cancelled, hcReq, wg, cpc,
                 timeout, ctimer, cres, reps, healthy>>
  /\ UNCHANGED histVars
  /\ UNCHANGED ordVars
  /\ UNCHANGED <<ctxHC, cfgFile, cfg, loadErr, runs>>

\* the supervisor starts the process again on the same host, once it is up
\* or has ended
BootAgain ==
  /\ mpc = "loop" \/ proc # "running"
  /\ runs < MaxRuns
  /\ runs' = runs + 1
  /\ proc' = "running"
  /\ mpc' = "parse"
  /\ lpc' = "none"
  /\ wg' = 0
  /\ ctxHC' = FALSE
  /\ cfg' = <<>>
  /\ loadErr' = FALSE
  /\ UNCHANGED <<sigIgnored, sigChan, lsig, cancelled, hcReq, cpc,
                 timeout, ctimer, cres, reps, healthy>>
  /\ UNCHANGED histVars
  /\ UNCHANGED ordVars
  /\ UNCHANGED <<cfgFile, confFile, lastEnforce>>

NextBoot ==
  \/ MainParse
  \/ MainSetup
  \/ MainLoadConfig
  \/ MainEnforceLogging
  \/ MainStartup
  \/ BootAgain

BootSpec == InitBoot /\ [][NextBoot]_vars

\* main's statements run one after the other; the external commands return
FairBootSpec ==
  /\ BootSpec
  /\ WF_vars(MainSetup)
  /\ WF_vars(MainLoadConfig)
  /\ WF_vars(MainEnforceLogging)
  /\ WF_vars(MainStartup)

(* ------------------- the listener under any channel input -------------- *)
\* a signal of any kind arrives on sigChan
ChanSend(sig) ==
  /\ proc = "running"
  /\ nDelivered < MaxSignals
  /\ Len(sigChan) < ChanCap
  /\ sigChan' = Append(sigChan, sig)
  /\ last' = [sig |-> sig, disp |-> "chan", can |-> cancelled]
  /\ nDelivered' = nDelivered + 1
  /\ termSeen' = (termSeen \/ sig \in TerminateClass)
  /\ UNCHANGED <<proc, sigIgnored, lpc, lsig, cancelled, hcReq, wg, mpc, cpc,
                 timeout, ctimer, cres, reps, healthy>>
  /\ UNCHANGED <<hcHandled, awaiting, cancelFirst, setInCall, repBefore,
                 repAfter>>
  /\ UNCHANGED bootVars
  /\ UNCHANGED ordVars

ChanSendAny == \E sig \in Signals : ChanSend(sig)

NextListener ==
  \/ ChanSendAny
  \/ DeliverAny
  \/ ListenerRecv
  \/ ListenerSwitch
  \/ ListenerIgnore
  \/ ListenerCancel
  \/ ListenerDone

ListenerSpec == Init /\ [][NextListener]_vars

(* ------------------------------ doInstall ------------------------------ *)
\* doInstall is about to be called with a live context that carries the flag
InitInstall ==
  /\ Quiet
  /\ mpc = "install"
  /\ ctxHC = TRUE

\* the commands are running
InCommands == mpc \in {"apt-update", "apt-install"}

\* a command is over and doInstall is at its return, with an error or with nil
AtReturn == mpc \in {"return-err", "return-nil"}

\* doInstall has returned
Returned == mpc \in {"install-failed", "install-done"}

\* sleepCtx, cancel := context.WithCancel(ctx); defer cancel(); go func() {...}()
InstallStart ==
  /\ proc = "running"
  /\ mpc = "install"
  /\ mpc' = "apt-update"
  /\ UNCHANGED <<proc, sigIgnored, sigChan, lpc, lsig, cancelled, hcReq, wg,
                 cpc, timeout, ctimer, cres, reps, healthy>>
  /\ UNCHANGED histVars
  /\ UNCHANGED bootVars
  /\ UNCHANGED ordVars

\* the goroutine started by doInstall gets to run: HealthySleep(sleepCtx, time.Hour)
HelperCall ==
  /\ InCommands \/ AtReturn \/ Returned
  /\ HSCall(Hour)
  /\ UNCHANGED <<proc, sigIgnored, sigChan, lpc, lsig, cancelled, hcReq, wg, mpc,
                 cres, healthy>>
  /\ UNCHANGED <<last, nDelivered, hcHandled, termSeen, awaiting>>
  /\ UNCHANGED bootVars
  /\ UNCHANGED ordVars

\* exec.CommandContext(ctx, "apt", "update").CombinedOutput(): on an error
\* doInstall returns it
AptUpdate ==
  /\ proc = "running"
  /\ mpc = "apt-update"
  /\ \E err \in BOOLEAN : mpc' = IF err THEN "return-err" ELSE "apt-install"
  /\ UNCHANGED <<proc, sigIgnored, sigChan, lpc, lsig, cancelled, hcReq, wg,
                 cpc, timeout, ctimer, cres, reps, healthy>>
  /\ UNCHANGED histVars
  /\ UNCHANGED bootVars
  /\ UNCHANGED ordVars

\* exec.CommandContext(ctx, "apt", "install", "-y", "unattended-upgrades");
\* doInstall returns the error or nil
AptInstall ==
  /\ proc = "running"
  /\ mpc = "apt-install"
  /\ \E err \in BOOLEAN : mpc' = IF err THEN "return-err" ELSE "return-nil"
  /\ UNCHANGED <<proc, sigIgnored, sigChan, lpc, lsig, cancelled, hcReq, wg,
                 cpc, timeout, ctimer, cres, reps, healthy>>
  /\ UNCHANGED histVars
  /\ UNCHANGED bootVars
  /\ UNCHANGED ordVars

\* doInstall returning without the deferred cancel()
InstallReturn_nocancel ==
  /\ proc = "running"
  /\ AtReturn
  /\ mpc' = IF mpc = "return-err" THEN "install-failed" ELSE "install-done"
  /\ UNCHANGED <<proc, sigIgnored, sigChan, lpc, lsig, cancelled, hcReq, wg,
                 cpc, timeout, ctimer, cres, reps, healthy>>
  /\ UNCHANGED histVars
  /\ UNCHANGED bootVars
  /\ UNCHANGED ordVars

\* doInstall returns: the deferred cancel() runs
InstallReturn ==
  /\ proc = "running"
  /\ AtReturn
  /\ DoCancel
  /\ mpc' = IF mpc = "return-err" THEN "install-failed" ELSE "install-done"
  /\ UNCHANGED <<proc, sigIgnored, sigChan, lpc, lsig, hcReq, wg, timeout,
                 ctimer, healthy>>
  /\ UNCHANGED <<last, nDelivered, hcHandled, termSeen, awaiting, setInCall,
                 repBefore, repAfter>>
  /\ UNCHANGED bootVars
  /\ UNCHANGED ordVars

\* the context doInstall was given is cancelled while the commands run, and
\* sleepCtx with it
InstallCtxCancel ==
  /\ proc = "running"
  /\ InCommands
  /\ ~cancelled
  /\ DoCancel
  /\ UNCHANGED <<proc, sigIgnored, sigChan, lpc, lsig, hcReq, wg, mpc, timeout,
                 ctimer, healthy>>
  /\ UNCHANGED <<last, nDelivered, hcHandled, termSeen, awaiting, setInCall,
                 repBefore, repAfter>>
  /\ UNCHANGED bootVars
  /\ UNCHANGED ordVars

\* a healthcheck request is stored while the commands run
InstallStore ==
  /\ proc = "running"
  /\ InCommands
  /\ hcHandled < MaxRequests
  /\ StoreFlag
  /\ awaiting' = TRUE
  /\ UNCHANGED <<proc, sigIgnored, sigChan, lpc, lsig, cancelled, wg, mpc, cpc,
                 timeout, ctimer, cres, reps, healthy>>
  /\ UNCHANGED <<last, nDelivered, termSeen, cancelFirst, repBefore, repAfter>>
  /\ UNCHANGED bootVars
  /\ UNCHANGED ordVars

NextInstall ==
  \/ InstallStart
  \/ HelperCall
  \/ AptUpdate
  \/ AptInstall
  \/ InstallReturn
  \/ InstallCtxCancel
  \/ InstallStore
  \/ HSPoll
  \/ HSWakeTimer
  \/ HSReturn
  \/ RepSwapAny
  \/ RepPrintAny
  \/ RepStopAny
  \/ RepWakeTimerAny
  \/ Tick

InstallSpec == InitInstall /\ [][NextInstall]_vars

\* the scheduler runs every runnable goroutine, due timers fire, time passes,
\* and a function that has finished runs its deferred calls; how long the
\* commands take is open
FairInstallSpec ==
  /\ InstallSpec
  /\ WF_vars(HelperCall)
  /\ WF_vars(InstallReturn)
  /\ WF_vars(HSPoll)
  /\ WF_vars(HSWakeTimer)
  /\ WF_vars(HSReturn)
  /\ WF_vars(RepSwapAny)
  /\ WF_vars(RepPrintAny)
  /\ WF_vars(RepStopAny)
  /\ WF_vars(RepWakeTimerAny)
  /\ WF_vars(Tick)

(* ------------------- the listener under a burst of signals ------------- *)
InitBurst ==
  /\ Listen
  /\ mpc = "burst"

\* subscribed signals arrive one after the other, up to and including the
\* first terminate-class one
BurstArrive ==
  /\ ~termSeen
  /\ nDelivered < MaxBurst
  /\ \E sig \in Notified : Arrive(sig)

NextBurst ==
  \/ BurstArrive
  \/ ListenerRecv
  \/ ListenerSwitch
  \/ ListenerIgnore
  \/ ListenerCancel
  \/ ListenerDone

BurstSpec == InitBurst /\ [][NextBurst]_vars

(* ============================ properties =============================== *)

\* C1: a HealthySleep call with a timeout D > 0 in which the cancellation fired
\* (or had fired before the call began) before the timeout timer expired
\* returns false, never true.
C1_CancelFirstReturnsFalse ==
  (cpc = "returned" /\ timeout > 0 /\ cancelFirst) => cres = FALSE

\* C2: for every timeout, zero and negative included, a HealthySleep call
\* during which the cancellation never fires returns, and returns true.
C2_NoCancelReturnsTrue ==
  /\ []((cpc = "returned" /\ ~cancelled) => cres = TRUE)
  /\ InCall ~> (cpc = "returned" \/ cancelled)

C2_Witness ==
  cpc = "returned" /\ timeout <= 0 /\ ~cancelled /\ cres = TRUE

\* C3: a terminate-class signal delivered while the listener runs makes the
\* listener fire the cancellation; stated as what every state on the way
\* needs: until the cancellation has fired the process runs and the signal
\* is in the channel or in the listener's hand.
C3_TerminateReachesCancel ==
  (termSeen /\ ~cancelled) =>
     /\ proc = "running"
     /\ \/ lsig \in TerminateClass
        \/ \E i \in 1..Len(sigChan) : sigChan[i] \in TerminateClass

\* C4: the subscribed set holds interrupt, terminate, abort, quit and user
\* signal 1, and a quit signal delivered while the listener listens is put
\* on the listener's channel.
C4_QuitSubscribed ==
  [][(Listening /\ Deliver(SIGQUIT)) =>
       /\ {SIGINT, SIGTERM, SIGABRT, SIGQUIT, SIGUSR1} \subseteq Notified
       /\ sigChan' = Append(sigChan, SIGQUIT)
       /\ proc' = "running"]_vars

\* C5: a hang-up signal delivered to the process goes to the listener and
\* has no effect: the process keeps running, the cancellation and the
\* healthcheck flag stay as they are.
C5_HangupNoEffect ==
  [][Deliver(SIGHUP) =>
       /\ proc' = "running"
       /\ cancelled' = cancelled
       /\ hcReq' = hcReq]_vars

\* C6: a signal of the ignore class (SIGURG) or of the unknown class,
\* delivered to the process or handled by the listener's switch, leaves the
\* cancellation and the healthcheck flag unchanged, and the listener goes
\* back to (or stays at) its receive.
C6_QuietSignalsNoEffect ==
  [][/\ (lpc = "switch" /\ lsig \in QuietClass /\ ListenerSwitch) =>
          (cancelled' = cancelled /\ hcReq' = hcReq /\ lpc' = "recv"
             /\ proc' = "running")
     /\ \A s \in QuietClass : Deliver(s) =>
          (cancelled' = cancelled /\ hcReq' = hcReq /\ lpc' = lpc
             /\ proc' = "running")]_vars

C6_Witness ==
  /\ last.sig \in QuietClass
  /\ last.disp = "chan"
  /\ sigChan = <<>>
  /\ lpc = "recv"
  /\ proc = "running"
  /\ ~cancelled
  /\ ~hcReq

\* C7 as stated: the cancellation is never unset, and a terminate-class
\* signal (interrupt, quit, abort, terminate) delivered once the cancellation
\* has fired changes no state.
C7_SecondTerminateNoChange ==
  [][/\ cancelled => cancelled'
     /\ \A s \in TerminateClass :
          (cancelled /\ Deliver(s)) => UNCHANGED progVars]_vars

\* C7 as amended: the cancellation is never unset, and an interrupt,
\* terminate or abort signal delivered once the cancellation has fired
\* changes no state of the program (quit keeps the runtime's default action).
C7_SecondExitSignalIgnored ==
  [][/\ cancelled => cancelled'
     /\ \A s \in IgnoredOnExit :
          (cancelled /\ Deliver(s)) => UNCHANGED progVars]_vars

C7_Witness ==
  /\ cancelled
  /\ last.can
  /\ last.sig \in IgnoredOnExit
  /\ last.disp = "ignored"
  /\ lpc = "done"

\* C8: in the idle loop, with no terminate-class signal delivered, a
\* healthcheck request is eventually followed by HEALTHY; stated as what
\* every state on the way needs: while a request waits for its HEALTHY and
\* no terminate-class signal has arrived, the process is running.
C8_RequestGetsHealthy ==
  (awaiting /\ ~termSeen) => proc = "running"

\* C9: the number of HEALTHY lines printed never exceeds the number of
\* healthcheck requests stored, however many reporting goroutines swap the
\* flag concurrently.
C9_NoDoubleReport ==
  healthy <= hcHandled

C9_Witness ==
  /\ healthy = hcHandled
  /\ healthy >= 1
  /\ BagCardinality(reps) >= 2

\* C10 as stated: when a call with a timeout of at least one second during
\* which the flag was set has returned, HEALTHY was printed before the return.
C10_ReportedBeforeReturn ==
  (cpc = "returned" /\ timeout >= Second /\ setInCall) => repBefore

\* C10 as amended: when such a call has returned, the request is not lost:
\* HEALTHY was printed since the flag was set, or the flag is still set, or a
\* reporting goroutine has swapped it out and is about to print.
C10_RequestNotLost ==
  (cpc = "returned" /\ timeout >= Second /\ setInCall) =>
     \/ repBefore
     \/ repAfter
     \/ hcReq
     \/ \E r \in Reps : r.pc = "print"

C10_Witness ==
  /\ cpc = "returned"
  /\ timeout >= Second
  /\ setInCall
  /\ cres = TRUE
  /\ ~cancelled
  /\ ~repBefore
  /\ hcReq

\* C11: no reporting goroutine prints HEALTHY once the call that started it
\* has returned to its caller (its stop flag is stored just before the
\* return), whether the call returned by timeout or by cancellation.
C11_NoReportAfterReturn ==
  [][\A r \in Reps : r.stop => ~RepPrint(r)]_vars

C13_NoFlagNoCrash ==
  ~ctxHC => proc = "running"

\* C14: whatever LoadConfig and EnforceLogging run into, main does not end:
\* the process ends only at the command line (a parse error, help, version),
\* and past the command line it logs 'startup complete' and is in the idle
\* loop.
C14_StartupAlwaysCompletes ==
  /\ [](proc # "running" => mpc \in {"parse", "end"})
  /\ [](mpc \in {"setup", "load", "enforce", "startup"} =>
          <>(mpc = "loop" /\ proc = "running"))

C14_Witness ==
  /\ mpc = "loop"
  /\ proc = "running"
  /\ loadErr
  /\ lastEnforce.ran
  /\ lastEnforce.wrote
  /\ ~lastEnforce.restart
  /\ confFile # FileOf(lastEnforce.data)

\* main holds LoadConfig's results
Loaded == mpc \in {"enforce", "startup", "loop"}

\* C15 as stated: LoadConfig returns the empty Config and no error when the
\* file is missing, returns an error only when the file exists and is
\* malformed, and always returns a non-nil Config.
C15_ErrorOnlyWhenMalformed ==
  Loaded =>
     /\ cfgFile.state = "notexist" => (cfg = <<EmptyConfig>> /\ ~loadErr)
     /\ loadErr => cfgFile.state = "malformed"
     /\ cfg # <<>>

\* C15 as amended: LoadConfig returns the empty Config and no error when the
\* file is missing, returns an error exactly when the file cannot be read for
\* another reason or is malformed, and always returns a non-nil Config, the
\* empty one whenever it returns an error.
C15_ErrorWhenUnreadableOrMalformed ==
  Loaded =>
     /\ cfgFile.state = "notexist" => (cfg = <<EmptyConfig>> /\ ~loadErr)
     /\ loadErr <=> cfgFile.state \in {"unreadable", "malformed"}
     /\ cfg # <<>>
     /\ loadErr => cfg = <<EmptyConfig>>

C15_Witness ==
  /\ mpc = "loop"
  /\ cfgFile.state = "malformed"
  /\ cfgFile.content # EmptyConfig
  /\ loadErr
  /\ cfg = <<EmptyConfig>>

\* EnforceLogging has run in this start of the process
Enforced == mpc \in {"startup", "loop"} /\ lastEnforce.ran

\* C16: EnforceLogging calls os.WriteFile only when the fragment on disk is
\* not the intended content, and restarts journald only in a run that
\* changed the fragment (wrote the intended content, or removed the fragment
\* when disabled); an enforcement that finds the intended content on disk
\* writes nothing and restarts nothing.
C16_EnforceIdempotent ==
  Enforced =>
     /\ lastEnforce.wrote => lastEnforce.before # FileOf(lastEnforce.data)
     /\ lastEnforce.restart =>
          /\ confFile # lastEnforce.before
          /\ IF lastEnforce.cfg.Disable
             THEN lastEnforce.removed
             ELSE lastEnforce.wrote /\ confFile = FileOf(lastEnforce.data)
     /\ (lastEnforce.data # <<>> /\ lastEnforce.before = FileOf(lastEnforce.data)) =>
          (~lastEnforce.wrote /\ ~lastEnforce.restart)

\* the second start of the process finds the fragment its first start wrote
\* (no host starts with this one) and leaves it alone
C16_Witness ==
  /\ runs = 2
  /\ Enforced
  /\ lastEnforce.before \notin Fragments
  /\ lastEnforce.data # <<>>
  /\ lastEnforce.before = FileOf(lastEnforce.data)
  /\ confFile = lastEnforce.before
  /\ ~lastEnforce.wrote
  /\ ~lastEnforce.restart

\* C17: EnforceLogging with cfg.Disable set never prepares or writes a
\* fragment; it leaves no fragment when the removal succeeded and the old one
\* when it failed; and when there was no fragment it changes nothing, does
\* not restart journald, and the process runs on.
C17_DisableRemovesFragment ==
  (Enforced /\ lastEnforce.cfg.Disable) =>
     /\ ~lastEnforce.wrote
     /\ lastEnforce.data = <<>>
     /\ lastEnforce.removed => confFile = AbsentFile
     /\ ~lastEnforce.removed => confFile = lastEnforce.before
     /\ lastEnforce.before = AbsentFile =>
          (~lastEnforce.removed /\ ~lastEnforce.restart /\ proc = "running")

C17_Witness ==
  /\ Enforced
  /\ lastEnforce.cfg.Disable
  /\ lastEnforce.before.state = "file"
  /\ lastEnforce.removed
  /\ lastEnforce.restart
  /\ confFile = AbsentFile

\* C18 as stated: the listener receives the signals in the order they were
\* delivered, and no subscribed signal of a burst is dropped.
C18_InOrderNoDrop ==
  /\ taken \o sigChan = arrived
  /\ last.disp # "dropped"

\* C18 as amended: the listener receives the signals that were put on its
\* channel in the order they were delivered, and a subscribed signal is
\* dropped only when it arrives while 16 signals wait in the channel.
C18_InOrderDropOnlyWhenFull ==
  /\ [](taken \o sigChan = arrived)
  /\ [][(nDelivered' # nDelivered /\ last'.disp = "dropped") =>
          Len(sigChan) = ChanCap]_vars

\* a burst of 16 signals ending in SIGTERM went through the listener in order
C18_Witness ==
  /\ Len(arrived) = ChanCap
  /\ arrived[ChanCap] = SIGTERM
  /\ taken = arrived
  /\ hcHandled = ChanCap - 1
  /\ cancelled
  /\ last.disp = "chan"

\* C19: a reporting goroutine whose call has returned (its stop flag is set)
\* or whose context is cancelled eventually ends.
C19_ReporterEnds ==
  (\E r \in Reps : r.w /\ (r.stop \/ cancelled)) ~> (~\E r \in Reps : r.w)

\* a call of at least a second returned by timeout, nothing was cancelled, and
\* no reporting goroutine is left
C19_Witness ==
  /\ cpc = "returned"
  /\ cres = TRUE
  /\ timeout >= Second
  /\ ~cancelled
  /\ healthy >= 1
  /\ reps = EmptyBag

\* doInstall has returned and the helper it started is over: HealthySleep has
\* returned and no reporting goroutine is left
HelperOver == Returned /\ cpc = "returned" /\ reps = EmptyBag

\* C20 as stated: a request set while doInstall runs its commands is
\* reported by the helper doInstall started; stated as what holds when the
\* helper is over: no such request is left without its HEALTHY.
C20_RequestReportedByHelper ==
  HelperOver => ~awaiting

\* C20 as amended: a request set while the commands run is reported by the
\* helper while the helper sleeps on, and is otherwise still set in the flag
\* when the helper is over; doInstall's return cancels the helper's context
\* on every path, and the helper then ends.
C20_HelperAnswersUntilReturn ==
  /\ []((HelperOver /\ awaiting) => hcReq)
  /\ [](Returned => cancelled)
  /\ awaiting ~> (~awaiting \/ cancelled \/ cpc \in {"ret", "returned"})
  /\ Returned ~> HelperOver

C20_Witness ==
  /\ HelperOver
  /\ mpc = "install-done"
  /\ cres = FALSE
  /\ healthy >= 1
  /\ ~awaiting
  /\ ~hcReq

\* how many of the goroutines in b have swapped a set flag out and are at
\* fmt.Println("HEALTHY")
Printing(b) ==
  LET P == {r \in BagToSet(b) : r.pc = "print"}
  IN IF P = {} THEN 0 ELSE BagCardinality([r \in P |-> b[r]])

\* C21: the flag goes from set to clear only in a step where a reporting
\* goroutine at its hc.Swap(false) moves on to print HEALTHY; a goroutine
\* about to print leaves that position only by printing; and the return of a
\* call, by timeout or by cancellation, leaves the flag as it was.
C21_ClearedOnlyByReport ==
  [][/\ (hcReq /\ ~hcReq') =>
          \E r \in Reps : /\ r.pc = "swap"
                          /\ reps' = Moved(r, [r EXCEPT !.pc = "print"])
     /\ Printing(reps') < Printing(reps) => healthy' = healthy + 1
     /\ (cpc = "ret" /\ cpc' = "returned") => hcReq' = hcReq]_vars

C21_Witness ==
  /\ cpc = "returned"
  /\ setInCall
  /\ ~repBefore
  /\ repAfter
  /\ ~hcReq
  /\ healthy = hcHandled

\* a call is under way on a live context and the flag is set without having
\* been stored during this call: the request was pending when HealthySleep
\* was called and has not been swapped out since
PendingFromBefore == InCall /\ ~cancelled /\ hcReq /\ ~setInCall

\* C22: the goroutine a call starts does its first hc.Swap(false) before it
\* waits for any tick: while a request that was pending when HealthySleep was
\* called is still in the flag, the context is live and the call has not
\* returned, that goroutine stands at its swap, which needs no timer, and has
\* not gone to wait in its select.
C22_FirstSwapBeforeTick ==
  PendingFromBefore =>
     /\ \E r \in Reps : ~r.stop /\ r.pc = "swap"
     /\ \A r \in Reps : ~r.stop => (r.pc = "swap" /\ ENABLED RepSwap(r))

C22_Witness ==
  /\ InCall
  /\ ~cancelled
  /\ ~setInCall
  /\ ~hcReq
  /\ timeout = Second
  /\ ctimer = Second
  /\ \E r \in Reps : ~r.stop /\ r.pc = "print"

=============================================================================
